---- MODULE Spec2Model ----
(***************************************************************************)
(* Model of src/script.js: the starfield of initSpaceBackground (particle  *)
(* pool, Star.reset/update, resize, animate), the DOMContentLoaded         *)
(* handler, the konami detector with the glyph rain, the lightbox and the  *)
(* form toast.                                                             *)
(*                                                                         *)
(* Numbers.  Particle fields are JavaScript numbers; the model keeps them  *)
(* exactly, as integers in units of 1/One, which is exact for every value  *)
(* the code computes from the Math.random() results of Random.  Values     *)
(* derived from the scroll position are exact rationals [n, d] (d > 0,     *)
(* lowest terms) or NaN.  The model is the real-number reading of the      *)
(* arithmetic: IEEE rounding is not modelled.  Rounding can change a       *)
(* comparison of the code (opacity > 0.8, opacity < 0.1, y > height,       *)
(* index < visibleThreshold) only where the exact operands are equal or    *)
(* nearly so; the values of Random and the scroll geometry are chosen so   *)
(* that no such tie occurs within the bounds, where the exact reading and  *)
(* the doubles then take the same branches.                                *)
(*                                                                         *)
(* Pool size.  The code builds a pool of 400 particles (DefaultStarCount); *)
(* the state machine runs the same code on a pool of baseStarCount         *)
(* particles, a bound of the model.  Every operator takes the pool size    *)
(* from baseStarCount, and VisibleThresholdFor takes it as a parameter, so *)
(* that the figures the code gives for 400 particles are computed too.     *)
(***************************************************************************)
EXTENDS Integers, Sequences, FiniteSets

VARIABLES
    width,            \* closure variable width   (px)
    height,           \* closure variable height  (px)
    stars,            \* closure variable stars: the pool, a sequence of Star objects
    rng,              \* position of the host PRNG: the number of the next Math.random() call
    nextId,           \* identity the next constructed Star object gets
    scrollY,          \* window.scrollY as read by the last frame
    scrollHeight,     \* document.body.scrollHeight as read by the last frame
    scrollProgress,   \* const scrollProgress of the last frame
    visibleThreshold, \* const visibleThreshold of the last frame
    drawn,            \* arcs filled by the last frame: pool index -> [x, y, size, alpha]
    recycled,         \* pool indices whose update() called reset() in the last frame
    pending,          \* number of requestAnimationFrame callbacks pending
    frames,           \* number of executions of animate on the current pool
    last,             \* the handler that ran last: "animate" or "resize"
    \* the document and its load
    canvas,           \* whether the document has the element with id 'space-canvas'
    loaded,           \* whether the DOMContentLoaded handler has run
    ran,              \* the page initialisers that have run to their end, in order
    starListeners,    \* number of window resize listeners registered by initSpaceBackground
    \* the konami detector and the glyph rain
    codeIndex,        \* closure variable index of initKonamiCode
    matched,          \* longest suffix of the keys pressed so far that is a prefix of code
    toggled,          \* whether the last keydown called toggleMatrixMode
    matrixMode,       \* whether document.body has class 'matrix-mode'
    matrixInterval,   \* module variable matrixInterval: a timer handle, 0 while undefined
    intervals,        \* handles of the running interval timers
    rainCanvases,     \* the canvases with id 'matrix-rain' in the document, in document order
    rainListeners,    \* number of window resize listeners registered by startMatrixRain
    starts,           \* number of calls of startMatrixRain so far
    \* the lightbox
    lightboxActive,   \* whether the lightbox has class 'active'
    lightboxSrc,      \* lightboxImg.src: 0 for the empty string, else the number of an image
    clearTimers,      \* number of pending timers set by closeLightbox
    lastClicked,      \* src of the placeholder image clicked most recently (0: none yet)
    \* the form toast
    url,              \* window.location: [pathname, search, hash]
    hasToast,         \* whether the document has the element with id 'toast'
    toastShow,        \* whether the toast has class 'show'
    timers,           \* pending timeouts of the toast: records [due, fn]
    now,              \* time in ms since the DOMContentLoaded handler ran
    shows,            \* the times at which the toast got class 'show'
    hides,            \* the times at which the class 'show' was removed from the toast
    replaced          \* number of calls of history.replaceState

starVars == <<width, height, stars, rng, nextId, scrollY, scrollHeight, scrollProgress,
              visibleThreshold, drawn, recycled, pending, frames, last>>
loadVars == <<canvas, loaded, ran, starListeners>>
eggVars == <<codeIndex, matched, toggled, matrixMode, matrixInterval, intervals,
             rainCanvases, rainListeners, starts>>
boxVars == <<lightboxActive, lightboxSrc, clearTimers, lastClicked>>
formVars == <<url, hasToast, toastShow, timers, now, shows, hides, replaced>>

vars == <<starVars, loadVars, eggVars, boxVars, formVars>>

----------------------------------------------------------------------------
(* Bounds of the model *)

\* the pool size (const baseStarCount, 400 in the code)
baseStarCount == 20
\* Math.random() returns a value in one of RandDen equal bins of [0, 1)
RandDen == 4
\* window.innerWidth ranges over 1 .. MaxWidth
MaxWidth == 1
\* window.innerHeight ranges over 1 .. MaxHeight
MaxHeight == 3
\* window.scrollY ranges over 0 .. MaxScrollY
MaxScrollY == 1
\* document.body.scrollHeight ranges over 0 .. MaxScrollHeight
MaxScrollHeight == 3
\* when initStars runs, the host PRNG is at one of MaxSeed + 1 positions
MaxSeed == 0
\* animate runs at most MaxFrames times on one pool
MaxFrames == 30
\* startMatrixRain runs at most MaxStarts times
MaxStarts == 2
\* the page has placeholders with images 1 .. MaxImages (and one without an image)
MaxImages == 2
\* at most MaxClearTimers timers set by closeLightbox are pending at once
MaxClearTimers == 2
\* the query string of the URL has at most MaxParams parameters
MaxParams == 2

----------------------------------------------------------------------------
(* Program constants *)

\* const baseStarCount = 400
DefaultStarCount == 400
\* setTimeout(() => { showToast(); }, 1000)
ToastDelay == 1000
\* setTimeout(() => { toast.classList.remove('show'); }, 5000)
ToastDuration == 5000

----------------------------------------------------------------------------
(* Numbers *)

\* fixed-point unit: the integer v stands for the number v / One
One == 20 * 97 * RandDen

Abs(a) == IF a < 0 THEN -a ELSE a

RECURSIVE GCD(_, _)
GCD(a, b) == IF b = 0 THEN a ELSE GCD(b, a % b)

\* the rational n / d (d # 0) in lowest terms with a positive denominator
Rat(n, d) ==
    LET g == GCD(Abs(n), Abs(d))
        s == IF d < 0 THEN -1 ELSE 1
    IN  [kind |-> "num", n |-> (s * n) \div g, d |-> (s * d) \div g]

NaN == [kind |-> "nan", n |-> 0, d |-> 1]
PosInf == [kind |-> "inf", n |-> 1, d |-> 1]

IsNum(a) == a.kind = "num"

\* JavaScript a / b on integers a >= 0 and b: 0/0 is NaN, a/0 is +Infinity for a > 0;
\* 0 / b for b < 0 is -0, which every later operation treats as 0
JsDiv(a, b) ==
    IF b = 0 THEN (IF a = 0 THEN NaN ELSE PosInf) ELSE Rat(a, b)

RatLess(a, b) == a.n * b.d < b.n * a.d
RatMul(a, b) == Rat(a.n * b.n, a.d * b.d)
RatAdd(a, b) == Rat(a.n * b.d + b.n * a.d, a.d * b.d)

\* Math.min(a, 1): NaN if a is NaN
MathMin1(a) ==
    IF a.kind = "nan" THEN NaN
    ELSE IF a.kind = "inf" THEN Rat(1, 1)
    ELSE IF RatLess(a, Rat(1, 1)) THEN a ELSE Rat(1, 1)

\* Math.pow(a, 2)
MathPow2(a) == IF IsNum(a) THEN RatMul(a, a) ELSE NaN

----------------------------------------------------------------------------
(* The host *)

RECURSIVE Pow(_, _)
Pow(b, e) == IF e = 0 THEN 1 ELSE b * Pow(b, e - 1)

\* which base-RandDen digit of the call's group number (n \div 6) call n returns
Place == <<0, 2, 1, 0, 1, 3>>

\* Math.random(): the value returned by call number n of the host PRNG (n >= 0), in
\* units of 1/One: (k + c / 97) / RandDen, a value in bin k of RandDen equal bins of
\* [0, 1), with k a digit of the group number and c = 1 + n % 6.  The stream is fixed;
\* the particles of one pool differ in opacity, twinkle speed and speed.
Random(n) ==
    LET k == ((n \div 6) \div Pow(RandDen, Place[(n % 6) + 1])) % RandDen
    IN  20 * (97 * k + 1 + (n % 6))

Widths == 1 .. MaxWidth
Heights == 0 .. MaxHeight
ScrollYs == 0 .. MaxScrollY
ScrollHeights == 0 .. MaxScrollHeight
\* other code draws from Math.random() too (the glyph rain), so the position of the PRNG
\* when a pool is built is an input
Seeds == {6 * RandDen * RandDen * k : k \in 0 .. MaxSeed}

----------------------------------------------------------------------------
(* class Star *)

\* Star.reset() with this.twinkleSpeed = Math.random() * 0.5
StarResetFastTwinkle(star, w, n) ==
    [star EXCEPT
        !.x = (Random(n) * w),
        !.y = -10 * One,
        !.z = Random(n + 1) * 2 + One \div 2,
        !.size = (Random(n + 2) * 15) \div 10,
        !.opacity = (Random(n + 3) * 5) \div 10 + One \div 10,
        !.twinkleSpeed = (Random(n + 4) * 5) \div 10,
        !.twinkleDir = 1]

\* Star.reset(), its Math.random() calls being calls n .. n + 4
StarReset(star, w, n) ==
    [star EXCEPT
        !.x = (Random(n) * w),
        !.y = -10 * One,
        !.z = Random(n + 1) * 2 + One \div 2,
        !.size = (Random(n + 2) * 15) \div 10,
        !.opacity = (Random(n + 3) * 5) \div 10 + One \div 10,
        !.twinkleSpeed = (Random(n + 4) * 5) \div 100,
        !.twinkleDir = 1]

\* new Star() without the initial y: the star starts above the screen
StarNewAtTop(id, w, h, n) ==
    StarReset([id |-> id, x |-> 0, y |-> 0, z |-> 0, size |-> 0, opacity |-> 0,
               twinkleSpeed |-> 0, twinkleDir |-> 1], w, n)

\* new Star(): reset(), then y = Math.random() * height (call n + 5)
StarNew(id, w, h, n) ==
    [StarReset([id |-> id, x |-> 0, y |-> 0, z |-> 0, size |-> 0, opacity |-> 0,
                twinkleSpeed |-> 0, twinkleDir |-> 1], w, n)
        EXCEPT !.y = Random(n + 5) * h]

\* the test "this.y > height" of Star.update(), after this.y += this.z * 0.2
OutOfBounds(star, h) == star.y + (star.z * 2) \div 10 > h * One

\* the twinkle without the flip of the direction
TwinkleNoBounce(star) ==
    [star EXCEPT !.opacity = star.opacity + star.twinkleSpeed * star.twinkleDir]

\* the twinkle of Star.update(): opacity advances, the direction flips outside [0.1, 0.8]
Twinkle(star) ==
    LET o == star.opacity + star.twinkleSpeed * star.twinkleDir
    IN  [star EXCEPT
            !.opacity = o,
            !.twinkleDir = IF o > (8 * One) \div 10 \/ o < One \div 10
                           THEN -star.twinkleDir ELSE star.twinkleDir]

\* Star.update() with the bounds test made before the drift
StarUpdateTestFirst(star, w, h, n) ==
    LET moved == [Twinkle(star) EXCEPT !.y = star.y + (star.z * 2) \div 10]
    IN  IF star.y > h * One THEN StarReset(moved, w, n) ELSE moved

\* Star.update(), a reset() in it using Math.random() calls n .. n + 4
StarUpdate(star, w, h, n) ==
    LET moved == [Twinkle(star) EXCEPT !.y = star.y + (star.z * 2) \div 10]
    IN  IF OutOfBounds(star, h) THEN StarReset(moved, w, n) ELSE moved

----------------------------------------------------------------------------
(* initStars and resize *)

\* initStars(): stars = [], then baseStarCount times stars.push(new Star())
InitStars(w, h, n, firstId) ==
    [i \in 1 .. baseStarCount |-> StarNew(firstId + i - 1, w, h, n + 6 * (i - 1))]

\* the identities of a new pool: those of the pool it replaces are free again once
\* that pool is unreachable
FirstId(id) == IF id = 0 THEN baseStarCount ELSE 0

\* the pool initStars() builds, for every viewport, PRNG position and first identity
Pools ==
    [w \in Widths, h \in Heights, seed \in Seeds, firstId \in {0, FirstId(0)} |->
        InitStars(w, h, seed, firstId)]

----------------------------------------------------------------------------
(* animate *)

\* window.innerHeight: the resize handler has run for every change of the viewport
\* before a frame runs, so it is the closure variable height
innerHeight(h) == h

\* const scrollProgress = Math.min(scrollY / maxScroll, 1)
ScrollProgress(sY, sH, h) == MathMin1(JsDiv(sY, sH - innerHeight(h)))

\* the threshold with the reveal inverted: count * (1 - Math.pow(scrollProgress, 2) * 0.9)
VisibleThresholdInverted(count, p) ==
    IF IsNum(p)
    THEN RatMul(Rat(count, 1), RatAdd(Rat(1, 1), RatMul(MathPow2(p), Rat(-9, 10))))
    ELSE NaN

\* count * (0.1 + Math.pow(scrollProgress, 2) * 0.9)
VisibleThresholdFor(count, p) ==
    IF IsNum(p)
    THEN RatMul(Rat(count, 1), RatAdd(Rat(1, 10), RatMul(MathPow2(p), Rat(9, 10))))
    ELSE NaN

\* const visibleThreshold = baseStarCount * (0.1 + Math.pow(scrollProgress, 2) * 0.9)
VisibleThreshold(p) == VisibleThresholdFor(baseStarCount, p)

\* index <= visibleThreshold
IsVisibleInclusive(index, threshold) ==
    IsNum(threshold) /\ index * threshold.d <= threshold.n

\* index < visibleThreshold (false when the threshold is NaN)
IsVisible(index, threshold) ==
    IsNum(threshold) /\ index * threshold.d < threshold.n

\* brightness = star.opacity * (0.5 + scrollProgress)
BrightnessUnscaled(star, p) ==
    IF IsNum(p)
    THEN RatMul(Rat(star.opacity, One), RatAdd(Rat(1, 2), p))
    ELSE NaN

\* const brightness = star.opacity * (0.5 + scrollProgress * 0.5)
Brightness(star, p) ==
    IF IsNum(p)
    THEN RatMul(Rat(star.opacity, One), RatAdd(Rat(1, 2), RatMul(p, Rat(1, 2))))
    ELSE NaN

\* the pool indices (from 1) whose update() in this frame calls reset()
Recycled(pool, h) == {i \in DOMAIN pool : OutOfBounds(pool[i], h)}

\* the forEach with a recycled star removed from the pool instead of reset in place
UpdateStarsSplice(pool, w, h, n) ==
    LET kept == SelectSeq(pool, LAMBDA star : ~OutOfBounds(star, h))
    IN  [i \in DOMAIN kept |-> StarUpdate(kept[i], w, h, n)]

\* the forEach with star.update() called only on the stars that every frame draws
UpdateStarsFirstTenth(pool, w, h, n) ==
    [i \in DOMAIN pool |->
        IF 10 * (i - 1) < Len(pool) THEN StarUpdate(pool[i], w, h, n) ELSE pool[i]]

\* the stars.forEach of animate, as far as it changes the pool: every star is updated;
\* the resets take their Math.random() calls in pool order, from call n on
UpdateStars(pool, w, h, n) ==
    LET Each(rec) ==
            [i \in DOMAIN pool |->
                IF i \in rec
                THEN StarUpdate(pool[i], w, h, n + 5 * Cardinality({j \in rec : j < i}))
                ELSE StarUpdate(pool[i], w, h, n)]
    IN  Each(Recycled(pool, h))

\* the arcs the stars.forEach of animate fills, by forEach index (from 0), drawn from
\* the updated stars
DrawStars(pool, p, threshold) ==
    [index \in {k \in 0 .. Len(pool) - 1 : IsVisible(k, threshold)} |->
        [x |-> pool[index + 1].x, y |-> pool[index + 1].y,
         size |-> pool[index + 1].size, alpha |-> Brightness(pool[index + 1], p)]]

----------------------------------------------------------------------------
(* The handlers *)

\* resize(), on a viewport of w x h with the host PRNG at position seed: width, height
\* and the canvas take the viewport's size (which clears the canvas), and initStars()
\* rebuilds the pool
Resize(w, h, seed) ==
    /\ starListeners > 0
    /\ width' = w
    /\ height' = h
    /\ stars' = Pools[w, h, seed, nextId]
    /\ rng' = seed + 6 * baseStarCount
    /\ nextId' = FirstId(nextId)
    /\ frames' = 0
    /\ last' = "resize"
    /\ drawn' = <<>>
    /\ recycled' = {}
    /\ UNCHANGED <<scrollY, scrollHeight, scrollProgress, visibleThreshold, pending>>
    /\ UNCHANGED <<loadVars, eggVars, boxVars, formVars>>

\* animate() without the requestAnimationFrame(animate) at its end
AnimateOnce ==
    /\ pending > 0
    /\ frames < MaxFrames
    /\ \E updated \in {UpdateStars(stars, width, height, rng)},
          rec \in {Recycled(stars, height)},
          sY \in ScrollYs, sH \in ScrollHeights :
           \E p \in {ScrollProgress(sY, sH, height)} :
               \E t \in {VisibleThreshold(p)} :
                   /\ scrollY' = sY
                   /\ scrollHeight' = sH
                   /\ scrollProgress' = p
                   /\ visibleThreshold' = t
                   /\ stars' = updated
                   /\ rng' = rng + 5 * Cardinality(rec)
                   /\ recycled' = rec
                   /\ drawn' = DrawStars(updated, p, t)
    /\ pending' = pending - 1
    /\ frames' = frames + 1
    /\ last' = "animate"
    /\ UNCHANGED <<width, height, nextId>>
    /\ UNCHANGED <<loadVars, eggVars, boxVars, formVars>>

\* animate(), run as a frame callback with the host at scroll offset sY and document
\* height sH: clear, update and draw every star, schedule the next frame
Animate ==
    /\ pending > 0
    /\ frames < MaxFrames
    /\ \E updated \in {UpdateStars(stars, width, height, rng)},
          rec \in {Recycled(stars, height)},
          sY \in ScrollYs, sH \in ScrollHeights :
           \E p \in {ScrollProgress(sY, sH, height)} :
               \E t \in {VisibleThreshold(p)} :
                   /\ scrollY' = sY
                   /\ scrollHeight' = sH
                   /\ scrollProgress' = p
                   /\ visibleThreshold' = t
                   /\ stars' = updated
                   /\ rng' = rng + 5 * Cardinality(rec)
                   /\ recycled' = rec
                   /\ drawn' = DrawStars(updated, p, t)
    /\ pending' = (pending - 1) + 1
    /\ frames' = frames + 1
    /\ last' = "animate"
    /\ UNCHANGED <<width, height, nextId>>
    /\ UNCHANGED <<loadVars, eggVars, boxVars, formVars>>

----------------------------------------------------------------------------
(* initFormHandling, showToast and cleanUrl *)

\* the query parameters a URL of the page may carry, as <<name, value>>
Params == {<<"success", "true">>, <<"success", "false">>, <<"ref", "1">>}

\* the sequences of at most n parameters
RECURSIVE SearchesUpTo(_)
SearchesUpTo(n) ==
    IF n = 0 THEN {<<>>}
    ELSE SearchesUpTo(n - 1)
             \cup {Append(q, p) : q \in {r \in SearchesUpTo(n - 1) : Len(r) = n - 1},
                                  p \in Params}

\* the URLs the page may be loaded with
Urls ==
    [pathname : {"/", "/index.html"}, search : SearchesUpTo(MaxParams),
     hash : {"", "#contact"}]

\* URLSearchParams.get(name): the value of the first parameter of that name, or null
SearchGet(search, name) ==
    IF \E i \in DOMAIN search : search[i][1] = name
    THEN search[CHOOSE i \in DOMAIN search :
                    /\ search[i][1] = name
                    /\ \A j \in 1 .. i - 1 : search[j][1] # name][2]
    ELSE "null"

\* URLSearchParams.delete(name): every parameter of that name is removed
SearchDelete(search, name) == SelectSeq(search, LAMBDA p : p[1] # name)

\* cleanUrl(): the location history.replaceState leaves.  The URL passed is
\* url.pathname + url.hash, which has no query string
CleanUrl(location) ==
    LET parsed == [location EXCEPT !.search = SearchDelete(location.search, "success")]
    IN  [pathname |-> parsed.pathname, search |-> <<>>, hash |-> parsed.hash]

\* urlParams.get('success') === 'true'
Success(location) == SearchGet(location.search, "success") = "true"

\* initFormHandling()
InitFormHandling ==
    /\ IF Success(url)
       THEN /\ timers' = timers \cup {[due |-> now + ToastDelay, fn |-> "showToast"]}
            /\ url' = CleanUrl(url)
            /\ replaced' = replaced + 1
       ELSE UNCHANGED <<timers, url, replaced>>
    /\ UNCHANGED <<hasToast, toastShow, now, shows, hides>>

\* whether timer t is the next of the pending timers to fire
Earliest(t) == t \in timers /\ \A u \in timers : t.due <= u.due

\* showToast() without the timer that removes the class
ShowToastNoHide(t) ==
    IF hasToast
    THEN /\ toastShow' = TRUE
         /\ shows' = Append(shows, t.due)
         /\ timers' = timers \ {t}
    ELSE /\ timers' = timers \ {t}
         /\ UNCHANGED <<toastShow, shows>>

\* showToast(), called by timer t
ShowToast(t) ==
    IF hasToast
    THEN /\ toastShow' = TRUE
         /\ shows' = Append(shows, t.due)
         /\ timers' = (timers \ {t})
                          \cup {[due |-> t.due + ToastDuration, fn |-> "hideToast"]}
    ELSE /\ timers' = timers \ {t}
         /\ UNCHANGED <<toastShow, shows>>

\* the timeout set by initFormHandling fires: () => { showToast(); }
ShowToastTimeout ==
    /\ \E t \in timers :
           /\ Earliest(t)
           /\ t.fn = "showToast"
           /\ now' = t.due
           /\ ShowToast(t)
    /\ UNCHANGED <<url, hasToast, hides, replaced>>
    /\ UNCHANGED <<starVars, loadVars, eggVars, boxVars>>

\* the timeout set by showToast fires: () => { toast.classList.remove('show'); }
HideToastTimeout ==
    /\ \E t \in timers :
           /\ Earliest(t)
           /\ t.fn = "hideToast"
           /\ now' = t.due
           /\ timers' = timers \ {t}
           /\ toastShow' = FALSE
           /\ hides' = Append(hides, t.due)
    /\ UNCHANGED <<url, hasToast, shows, replaced>>
    /\ UNCHANGED <<starVars, loadVars, eggVars, boxVars>>

----------------------------------------------------------------------------
(* initLightbox *)

\* the elements with class 'screenshot-placeholder': placeholder 0 holds no img,
\* placeholder k > 0 holds an img whose src is image k
Placeholders == 0 .. MaxImages

\* initLightbox(): the lightbox is created, not active, its img with an empty src
InitLightbox ==
    /\ lightboxActive' = FALSE
    /\ lightboxSrc' = 0
    /\ clearTimers' = 0
    /\ UNCHANGED lastClicked

\* closeLightbox(): the class is removed and a timer that clears the src is set
CloseLightbox ==
    /\ clearTimers < MaxClearTimers
    /\ lightboxActive' = FALSE
    /\ clearTimers' = clearTimers + 1
    /\ UNCHANGED <<lightboxSrc, lastClicked>>

\* the keydown listener of initLightbox
LightboxKeyDown(key) ==
    IF key = "Escape" /\ lightboxActive THEN CloseLightbox ELSE UNCHANGED boxVars

\* a click on placeholder p
PlaceholderClick(p) ==
    /\ loaded
    /\ IF p # 0
       THEN /\ lightboxSrc' = p
            /\ lightboxActive' = TRUE
            /\ lastClicked' = p
            /\ UNCHANGED clearTimers
       ELSE UNCHANGED boxVars
    /\ UNCHANGED <<starVars, loadVars, eggVars, formVars>>

\* a click on the close button
CloseButtonClick ==
    /\ loaded
    /\ CloseLightbox
    /\ UNCHANGED <<starVars, loadVars, eggVars, formVars>>

\* a click on the lightbox itself (e.target === lightbox)
BackdropClick ==
    /\ loaded
    /\ CloseLightbox
    /\ UNCHANGED <<starVars, loadVars, eggVars, formVars>>

\* a timer set by closeLightbox fires, 300 ms after the close: lightboxImg.src = ''
ClearSrcTimeout ==
    /\ clearTimers > 0
    /\ clearTimers' = clearTimers - 1
    /\ lightboxSrc' = 0
    /\ UNCHANGED <<lightboxActive, lastClicked>>
    /\ UNCHANGED <<starVars, loadVars, eggVars, formVars>>

----------------------------------------------------------------------------
(* initKonamiCode, toggleMatrixMode, startMatrixRain and stopMatrixRain *)

\* const code
code ==
    <<"ArrowUp", "ArrowUp", "ArrowDown", "ArrowDown", "ArrowLeft", "ArrowRight",
      "ArrowLeft", "ArrowRight", "b", "a">>

\* the keys pressed: those of code, and Escape
Keys == {code[i] : i \in DOMAIN code} \cup {"Escape"}

\* the glyph rain as startMatrixRain and stopMatrixRain see it
Rain ==
    [matrixInterval |-> matrixInterval, intervals |-> intervals,
     rainCanvases |-> rainCanvases, rainListeners |-> rainListeners, starts |-> starts]

\* startMatrixRain(): a canvas with id 'matrix-rain' is appended to the body, an
\* interval timer is started and its handle stored in matrixInterval, and a resize
\* listener is added to the window
StartMatrixRain(r) ==
    [matrixInterval |-> r.starts + 1,
     intervals |-> r.intervals \cup {r.starts + 1},
     rainCanvases |-> Append(r.rainCanvases, r.starts + 1),
     rainListeners |-> r.rainListeners + 1,
     starts |-> r.starts + 1]

\* stopMatrixRain() without the canvas.remove()
StopMatrixRainKeepsCanvas(r) ==
    [r EXCEPT !.intervals = r.intervals \ {r.matrixInterval}]

\* stopMatrixRain(): clearInterval(matrixInterval), and the first element with id
\* 'matrix-rain', if there is one, is removed
StopMatrixRain(r) ==
    [r EXCEPT !.intervals = r.intervals \ {r.matrixInterval},
              !.rainCanvases = IF r.rainCanvases = <<>> THEN <<>>
                               ELSE Tail(r.rainCanvases)]

\* toggleMatrixMode()
ToggleMatrixMode ==
    /\ matrixMode' = ~matrixMode
    /\ \E r \in {IF ~matrixMode THEN StartMatrixRain(Rain) ELSE StopMatrixRain(Rain)} :
           /\ matrixInterval' = r.matrixInterval
           /\ intervals' = r.intervals
           /\ rainCanvases' = r.rainCanvases
           /\ rainListeners' = r.rainListeners
           /\ starts' = r.starts

\* initKonamiCode(): let index = 0
InitKonamiCode ==
    /\ codeIndex' = 0
    /\ UNCHANGED <<matched, toggled, matrixMode, matrixInterval, intervals,
                   rainCanvases, rainListeners, starts>>

\* the keydown listener of initKonamiCode
KonamiKeyDown(key) ==
    IF key = code[codeIndex + 1]
    THEN IF codeIndex + 1 = Len(code)
         THEN /\ ToggleMatrixMode
              /\ codeIndex' = 0
              /\ toggled' = TRUE
         ELSE /\ codeIndex' = codeIndex + 1
              /\ toggled' = FALSE
              /\ UNCHANGED <<matrixMode, matrixInterval, intervals, rainCanvases,
                             rainListeners, starts>>
    ELSE /\ codeIndex' = 0
         /\ toggled' = FALSE
         /\ UNCHANGED <<matrixMode, matrixInterval, intervals, rainCanvases,
                        rainListeners, starts>>

\* the longest suffix of the keys pressed, key included, that is a prefix of code,
\* when m was that length before key
LongestMatch(m, key) ==
    LET recent == Append(SubSeq(code, 1, m), key)
        fits == {k \in 0 .. Len(code) :
                    /\ k <= Len(recent)
                    /\ SubSeq(recent, Len(recent) - k + 1, Len(recent)) = SubSeq(code, 1, k)}
    IN  CHOOSE k \in fits : \A j \in fits : j <= k

\* a keydown event of the document: the listener of initLightbox runs, then the one
\* of initKonamiCode
KeyDown(key) ==
    /\ loaded
    /\ starts < MaxStarts \/ matrixMode
    /\ LightboxKeyDown(key)
    /\ KonamiKeyDown(key)
    /\ matched' = LongestMatch(matched, key)
    /\ UNCHANGED <<starVars, loadVars, formVars>>

----------------------------------------------------------------------------
(* initSpaceBackground and the DOMContentLoaded handler *)

\* the initialisers the DOMContentLoaded handler calls, in the order of the calls
Initialisers ==
    <<"initScrollAnimations", "initFormHandling", "initSmoothScroll", "initLightbox",
      "initKonamiCode", "initSpaceBackground">>

\* what resize() followed by animate() leaves: a pool built on a viewport of w x h with
\* the host PRNG at position seed, after one frame at scroll offset sY and document
\* height sH
Started(w, h, seed, sY, sH) ==
    LET pool == Pools[w, h, seed, 0]
        p == ScrollProgress(sY, sH, h)
        updated == UpdateStars(pool, w, h, seed + 6 * baseStarCount)
    IN  [width |-> w,
         height |-> h,
         stars |-> updated,
         rng |-> seed + 6 * baseStarCount + 5 * Cardinality(Recycled(pool, h)),
         nextId |-> FirstId(0),
         scrollY |-> sY,
         scrollHeight |-> sH,
         scrollProgress |-> p,
         visibleThreshold |-> VisibleThreshold(p),
         drawn |-> DrawStars(updated, p, VisibleThreshold(p)),
         recycled |-> Recycled(pool, h)]

\* initSpaceBackground() without the test `if (!canvas) return`
InitSpaceBackgroundUnchecked ==
    /\ starListeners' = starListeners + 1
    /\ \E seed \in Seeds, w \in Widths, h \in Heights, sY \in ScrollYs, sH \in ScrollHeights :
           \E s \in {Started(w, h, seed, sY, sH)} :
               /\ width' = s.width
               /\ height' = s.height
               /\ stars' = s.stars
               /\ rng' = s.rng
               /\ nextId' = s.nextId
               /\ scrollY' = s.scrollY
               /\ scrollHeight' = s.scrollHeight
               /\ scrollProgress' = s.scrollProgress
               /\ visibleThreshold' = s.visibleThreshold
               /\ drawn' = s.drawn
               /\ recycled' = s.recycled
    /\ pending' = pending + 1
    /\ frames' = 1
    /\ last' = "animate"

\* initSpaceBackground(): nothing without the canvas; with it, the resize listener is
\* registered, resize() builds the pool and animate() runs the first frame
InitSpaceBackground ==
    IF ~canvas
    THEN UNCHANGED <<starVars, starListeners>>
    ELSE /\ starListeners' = starListeners + 1
         /\ \E seed \in Seeds, w \in Widths, h \in Heights,
               sY \in ScrollYs, sH \in ScrollHeights :
                \E s \in {Started(w, h, seed, sY, sH)} :
                    /\ width' = s.width
                    /\ height' = s.height
                    /\ stars' = s.stars
                    /\ rng' = s.rng
                    /\ nextId' = s.nextId
                    /\ scrollY' = s.scrollY
                    /\ scrollHeight' = s.scrollHeight
                    /\ scrollProgress' = s.scrollProgress
                    /\ visibleThreshold' = s.visibleThreshold
                    /\ drawn' = s.drawn
                    /\ recycled' = s.recycled
         /\ pending' = pending + 1
         /\ frames' = 1
         /\ last' = "animate"

\* the DOMContentLoaded handler: the six initialisers, in order (initScrollAnimations
\* and initSmoothScroll change nothing the model keeps)
DOMContentLoaded ==
    /\ ~loaded
    /\ loaded' = TRUE
    /\ ran' = Initialisers
    /\ InitFormHandling
    /\ InitLightbox
    /\ InitKonamiCode
    /\ InitSpaceBackground
    /\ UNCHANGED canvas

----------------------------------------------------------------------------
(* The specifications *)

\* a URL without query string and hash
PlainUrl == [pathname |-> "/", search |-> <<>>, hash |-> ""]

\* the konami detector, the glyph rain, the lightbox and the toast before any event,
\* on a page loaded with URL u, with the toast element if t
PageIdle(u, t) ==
    /\ codeIndex = 0
    /\ matched = 0
    /\ toggled = FALSE
    /\ matrixMode = FALSE
    /\ matrixInterval = 0
    /\ intervals = {}
    /\ rainCanvases = <<>>
    /\ rainListeners = 0
    /\ starts = 0
    /\ lightboxActive = FALSE
    /\ lightboxSrc = 0
    /\ clearTimers = 0
    /\ lastClicked = 0
    /\ url = u
    /\ hasToast = t
    /\ toastShow = FALSE
    /\ timers = {}
    /\ now = 0
    /\ shows = <<>>
    /\ hides = <<>>
    /\ replaced = 0

\* the document before DOMContentLoaded, with the space canvas if c
Unloaded(c, u, t) ==
    /\ width = 0
    /\ height = 0
    /\ stars = <<>>
    /\ rng = 0
    /\ nextId = 0
    /\ scrollY = 0
    /\ scrollHeight = 0
    /\ scrollProgress = Rat(0, 1)
    /\ visibleThreshold = Rat(0, 1)
    /\ drawn = <<>>
    /\ recycled = {}
    /\ pending = 0
    /\ frames = 0
    /\ last = "none"
    /\ canvas = c
    /\ loaded = FALSE
    /\ ran = <<>>
    /\ starListeners = 0
    /\ PageIdle(u, t)

\* the starfield: the page after DOMContentLoaded on a document that has the canvas
\* (initSpaceBackground has called resize(), then animate())
Init ==
    /\ \E seed \in Seeds, w \in Widths, h \in Heights, sY \in ScrollYs, sH \in ScrollHeights :
           \E s \in {Started(w, h, seed, sY, sH)} :
               /\ width = s.width
               /\ height = s.height
               /\ stars = s.stars
               /\ rng = s.rng
               /\ nextId = s.nextId
               /\ scrollY = s.scrollY
               /\ scrollHeight = s.scrollHeight
               /\ scrollProgress = s.scrollProgress
               /\ visibleThreshold = s.visibleThreshold
               /\ drawn = s.drawn
               /\ recycled = s.recycled
    /\ pending = 1
    /\ frames = 1
    /\ last = "animate"
    /\ canvas = TRUE
    /\ loaded = TRUE
    /\ ran = Initialisers
    /\ starListeners = 1
    /\ PageIdle(PlainUrl, TRUE)

Next ==
    \/ \E w \in Widths, h \in Heights, seed \in Seeds : Resize(w, h, seed)
    \/ Animate

Spec == Init /\ [][Next]_vars

\* a call of animate by the browser, told by the frame count: within Next the steps
\* that count a frame are those of Animate, and Animate can run whenever a callback is
\* pending
AnimateStep == pending > 0 /\ frames < MaxFrames /\ frames' = frames + 1

\* the starfield with the frame callbacks run by the browser: a pending callback is
\* eventually called
LiveSpec == Spec /\ WF_frames(AnimateStep)

\* the starfield from the load of the document, with or without the canvas
LoadInit == \E c \in BOOLEAN : Unloaded(c, PlainUrl, TRUE)

LoadNext ==
    \/ DOMContentLoaded
    \/ \E w \in Widths, h \in Heights, seed \in Seeds : Resize(w, h, seed)
    \/ Animate

LoadSpec == LoadInit /\ [][LoadNext]_vars

\* the keys, clicks and lightbox timers of a page without the canvas
PageInit == Unloaded(FALSE, PlainUrl, TRUE)

PageNext ==
    \/ DOMContentLoaded
    \/ \E key \in Keys : KeyDown(key)
    \/ \E p \in Placeholders : PlaceholderClick(p)
    \/ CloseButtonClick
    \/ BackdropClick
    \/ ClearSrcTimeout

PageSpec == PageInit /\ [][PageNext]_vars

\* the form toast of a page without the canvas, loaded with any of the URLs; the
\* browser fires DOMContentLoaded and runs every timeout that is due
FormInit == \E u \in Urls, t \in BOOLEAN : Unloaded(FALSE, u, t)

FormNext ==
    \/ DOMContentLoaded
    \/ ShowToastTimeout
    \/ HideToastTimeout

FormSpec ==
    /\ FormInit
    /\ [][FormNext]_vars
    /\ WF_vars(DOMContentLoaded)
    /\ WF_vars(ShowToastTimeout)
    /\ WF_vars(HideToastTimeout)

----------------------------------------------------------------------------
(* Properties *)

\* a <= b, for numbers a and b
RatLeq(a, b) == a.n * b.d <= b.n * a.d

\* a number in the closed interval [0, 1]
InUnitInterval(a) == IsNum(a) /\ 0 <= a.n /\ a.n <= a.d

\* C1: the scrollProgress of every frame is a number in [0, 1], whatever scrollY,
\* the document's scrollHeight and the viewport height are, a page not taller than
\* the viewport included.
C1_ScrollProgressInUnitInterval == InUnitInterval(scrollProgress)

\* C2: every frame draws at least the 10% of the pool with the lowest indices (every
\* index below 0.1 * baseStarCount), whatever the scroll offset and the page geometry
\* are, and a frame at full scroll draws every particle.
C2_AtLeastTenPercentDrawn ==
    last = "animate" =>
        /\ \A index \in 0 .. baseStarCount - 1 :
               10 * index < baseStarCount => index \in DOMAIN drawn
        /\ (scrollHeight - height > 0 /\ scrollY >= scrollHeight - height)
               => DOMAIN drawn = 0 .. baseStarCount - 1

\* C3: the pool holds exactly baseStarCount particles in every state, under any
\* interleaving of frames (with their recycling) and resizes.
C3_PoolLengthConstant == Len(stars) = baseStarCount

\* a frame has recycled particles of a full pool
C3_Witness ==
    /\ last = "animate"
    /\ frames >= 2
    /\ recycled # {}
    /\ Len(stars) = baseStarCount

\* C4: every particle's opacity lies in [0.1 - e, 0.8 + e], where e is that
\* particle's twinkleSpeed, and the twinkleSpeed is below 0.05.
C4_OpacityWithinOneTwinkleStep ==
    \A i \in DOMAIN stars :
        /\ 0 <= stars[i].twinkleSpeed
        /\ 100 * stars[i].twinkleSpeed < 5 * One
        /\ stars[i].opacity >= One \div 10 - stars[i].twinkleSpeed
        /\ stars[i].opacity <= (8 * One) \div 10 + stars[i].twinkleSpeed

\* a particle has twinkled up past 0.8, back down and past 0.1
C4_Witness ==
    \E i \in DOMAIN stars :
        /\ stars[i].opacity < One \div 10
        /\ stars[i].twinkleDir = 1
        /\ stars[i].twinkleSpeed > 0

\* C5 as stated: every particle's opacity is within [0.1, 0.8] in every state.
C5_OpacityInClosedRange ==
    \A i \in DOMAIN stars :
        /\ stars[i].opacity >= One \div 10
        /\ stars[i].opacity <= (8 * One) \div 10

\* C5 as amended: every particle's opacity is strictly between 0.05 and 0.85, and when
\* it is outside [0.1, 0.8] the particle's twinkle direction points back into the range.
C5_OpacityBouncesBack ==
    \A i \in DOMAIN stars :
        /\ 20 * stars[i].opacity > One
        /\ 20 * stars[i].opacity < 17 * One
        /\ stars[i].opacity > (8 * One) \div 10 => stars[i].twinkleDir = -1
        /\ stars[i].opacity < One \div 10 => stars[i].twinkleDir = 1

\* a particle's opacity is above 0.8
C5_Witness ==
    \E i \in DOMAIN stars : stars[i].opacity > (8 * One) \div 10

\* C6: in every frame a particle whose vertical position exceeds the viewport height
\* in Star.update is recycled in place (its y becomes -10, it stays the same object at
\* the same pool index) and the recycle changes no other particle (a particle that is
\* not recycled only drifts and twinkles); so in every state every particle has
\* y <= height, and no arc is drawn below the bottom edge.
C6_RecycledInPlace ==
    /\ [](\A i \in DOMAIN stars : stars[i].y <= height * One)
    /\ [](\A index \in DOMAIN drawn : drawn[index].y <= height * One)
    /\ [][frames' = frames + 1 =>
            /\ Len(stars') = Len(stars)
            /\ \A i \in DOMAIN stars :
                   /\ stars'[i].id = stars[i].id
                   /\ IF stars[i].y + (stars[i].z * 2) \div 10 > height * One
                      THEN /\ stars'[i].y = -10 * One
                           /\ i \in recycled'
                      ELSE /\ stars'[i].y = stars[i].y + (stars[i].z * 2) \div 10
                           /\ stars'[i].x = stars[i].x
                           /\ stars'[i].z = stars[i].z
                           /\ stars'[i].size = stars[i].size
                           /\ stars'[i].twinkleSpeed = stars[i].twinkleSpeed
                           /\ i \notin recycled']_vars

\* a frame has just recycled a particle, which is now at y = -10, beside a particle
\* that was not recycled
C6_Witness ==
    /\ last = "animate"
    /\ \E i \in recycled : stars[i].y = -10 * One
    /\ \E i \in DOMAIN stars : i \notin recycled /\ stars[i].y > 0

\* C7 as stated: every resize event leaves a pool of exactly baseStarCount freshly
\* constructed particles: none of the objects of the previous pool is in it, and every
\* particle has twinkle direction +1, opacity in [0.1, 0.6) and y in
\* [0, new viewport height).  It fails for a viewport of height 0, where y = 0.
C7_ResizeYBelowHeight ==
    [][nextId' # nextId =>
        /\ Len(stars') = baseStarCount
        /\ \A i \in DOMAIN stars' :
               /\ \A j \in DOMAIN stars : stars'[i].id # stars[j].id
               /\ stars'[i].twinkleDir = 1
               /\ stars'[i].opacity >= One \div 10
               /\ stars'[i].opacity < (6 * One) \div 10
               /\ stars'[i].y >= 0
               /\ stars'[i].y < height' * One]_vars

\* C7: every resize event leaves a pool of exactly baseStarCount freshly constructed
\* particles: none of the objects of the previous pool is in it, and every particle has
\* twinkle direction +1, opacity in [0.1, 0.6) and y in [0, new viewport height), or
\* y = 0 when the new viewport height is 0.
C7_ResizeRebuildsPool ==
    [][nextId' # nextId =>
        /\ Len(stars') = baseStarCount
        /\ \A i \in DOMAIN stars' :
               /\ \A j \in DOMAIN stars : stars'[i].id # stars[j].id
               /\ stars'[i].twinkleDir = 1
               /\ stars'[i].opacity >= One \div 10
               /\ stars'[i].opacity < (6 * One) \div 10
               /\ stars'[i].y >= 0
               /\ IF height' = 0 THEN stars'[i].y = 0
                                 ELSE stars'[i].y < height' * One]_vars

\* a resize has rebuilt a pool that an earlier resize had built
C7_Witness ==
    /\ last = "resize"
    /\ nextId = baseStarCount
    /\ Len(stars) = baseStarCount
    /\ \A i \in DOMAIN stars : stars[i].y >= 0

\* the pool indices (from 0) below count * (0.1 + 0.9 * (n / d)^2)
BelowThreshold(count, n, d) ==
    {index \in 0 .. count - 1 : 10 * index * d * d < count * (d * d + 9 * n * n)}

\* the pool indices (from 0) the code draws of a pool of count particles at progress p
DrawnOf(count, p) ==
    {index \in 0 .. count - 1 : IsVisible(index, VisibleThresholdFor(count, p))}

\* what the code draws of the pool of DefaultStarCount particles at progress 0, 0.5, 1
DrawnOfDefaultPool ==
    [p \in {Rat(0, 1), Rat(1, 2), Rat(1, 1)} |-> DrawnOf(DefaultStarCount, p)]

\* C8: a frame whose scrollProgress p is in [0, 1] draws exactly the particles whose
\* index i satisfies i < N * (0.1 + 0.9 * p^2); the threshold is 0.1 * N at p = 0 and N
\* at p = 1; of 400 particles the code draws indices 0..39 at p = 0, indices 0..129 at
\* p = 0.5 and all 400 at p = 1.
C8_DrawnBelowThreshold ==
    /\ (last = "animate" /\ InUnitInterval(scrollProgress)) =>
          /\ DOMAIN drawn = BelowThreshold(baseStarCount, scrollProgress.n, scrollProgress.d)
          /\ scrollProgress.n = 0 =>
                 10 * visibleThreshold.n = baseStarCount * visibleThreshold.d
          /\ scrollProgress.n = scrollProgress.d =>
                 visibleThreshold.n = baseStarCount * visibleThreshold.d
    /\ DrawnOfDefaultPool[Rat(0, 1)] = 0 .. 39
    /\ DrawnOfDefaultPool[Rat(1, 2)] = 0 .. 129
    /\ DrawnOfDefaultPool[Rat(1, 1)] = 0 .. DefaultStarCount - 1

\* a frame at scrollProgress 0.5 has drawn some particles and not others
C8_Witness ==
    /\ last = "animate"
    /\ scrollProgress = Rat(1, 2)
    /\ DOMAIN drawn # {}
    /\ DOMAIN drawn # 0 .. baseStarCount - 1

\* C9: visibleThreshold is non-decreasing in scrollProgress over [0, 1]: of two
\* consecutive frames with progress p1 <= p2 in [0, 1], the second has a threshold at
\* least the first's, and draws every index the first drew.
C9_ThresholdMonotone ==
    [][(/\ last = "animate"
        /\ last' = "animate"
        /\ InUnitInterval(scrollProgress)
        /\ InUnitInterval(scrollProgress')
        /\ RatLeq(scrollProgress, scrollProgress'))
       => /\ RatLeq(visibleThreshold, visibleThreshold')
          /\ DOMAIN drawn \subseteq DOMAIN drawn']_vars

\* a later frame of a pool runs at full progress and draws the whole pool
C9_Witness ==
    /\ last = "animate"
    /\ frames >= 2
    /\ scrollProgress = Rat(1, 1)
    /\ DOMAIN drawn = 0 .. baseStarCount - 1

\* C10: every arc drawn has alpha = the particle's opacity after its update
\* * (0.5 + 0.5 * scrollProgress): opacity * 0.5 at progress 0, opacity at progress 1.
C10_AlphaScaledByProgress ==
    last = "animate" =>
        \A index \in DOMAIN drawn :
            LET a == drawn[index].alpha
                o == stars[index + 1].opacity
            IN  /\ IsNum(scrollProgress)
                /\ a = Rat(o * (scrollProgress.d + scrollProgress.n),
                           2 * scrollProgress.d * One)
                /\ scrollProgress.n = 0 => a = Rat(o, 2 * One)
                /\ scrollProgress = Rat(1, 1) => a = Rat(o, One)

\* a frame at progress 0.5 has drawn a particle whose opacity its update changed
C10_Witness ==
    /\ last = "animate"
    /\ scrollProgress = Rat(1, 2)
    /\ \E index \in DOMAIN drawn :
           /\ stars[index + 1].twinkleSpeed > 0
           /\ index + 1 \notin recycled

\* C11: on a document without the element 'space-canvas', initSpaceBackground does
\* nothing: after the DOMContentLoaded handler no resize listener of the starfield is
\* registered, there is no pool and no frame callback is pending, in every later
\* state; the initialisers called before it have run as on any page (all six calls
\* were made, the lightbox is created, the konami detector is at index 0).
C11_NoCanvasNoStarfield ==
    (loaded /\ ~canvas) =>
        /\ starListeners = 0
        /\ stars = <<>>
        /\ pending = 0
        /\ frames = 0
        /\ last = "none"
        /\ ran = Initialisers
        /\ PageIdle(PlainUrl, TRUE)

\* the DOMContentLoaded handler has run on a document without the canvas
C11_Witness == loaded /\ ~canvas /\ ran = Initialisers

\* C12: the starfield loop runs forever and singly: exactly one frame callback is
\* pending in every state, whatever the interleaving of frames and resize events (a
\* frame schedules exactly one further frame, a resize schedules none and registers no
\* listener), and frames run again and again (up to the frame bound of the model:
\* animate runs infinitely often unless the pool has reached MaxFrames frames for good,
\* and a frame follows every resize).
C12_OneLoopForever ==
    /\ [](pending = 1 /\ starListeners = 1)
    /\ [][last' = "animate" => pending' = (pending - 1) + 1]_vars
    /\ (<>[](frames = MaxFrames) \/ []<><<AnimateStep>>_frames)
    /\ (last = "resize") ~> (last = "animate")

\* a resize event has been handled while the loop runs, and one callback is pending
C12_Witness == last = "resize" /\ nextId = 0 /\ pending = 1

\* C14: in every frame every particle of the pool is updated exactly once, drawn or
\* not: it drifts by z * 0.2 and twinkles by one step, or it is recycled; and every arc
\* is drawn with the particle's position, size and opacity after its update.
C14_AllUpdatedBeforeDrawn ==
    [][frames' = frames + 1 =>
        /\ DOMAIN stars' = DOMAIN stars
        /\ \A i \in DOMAIN stars :
               IF i \in recycled'
               THEN stars'[i].y = -10 * One
               ELSE /\ stars'[i].y = stars[i].y + (stars[i].z * 2) \div 10
                    /\ stars'[i].opacity
                           = stars[i].opacity + stars[i].twinkleSpeed * stars[i].twinkleDir
        /\ \A k \in DOMAIN drawn' :
               /\ drawn'[k].x = stars'[k + 1].x
               /\ drawn'[k].y = stars'[k + 1].y
               /\ drawn'[k].size = stars'[k + 1].size
               /\ IsNum(scrollProgress')
               /\ drawn'[k].alpha
                      = Rat(stars'[k + 1].opacity * (scrollProgress'.d + scrollProgress'.n),
                            2 * scrollProgress'.d * One)]_vars

\* a frame has drawn some particles and has recycled a particle that it did not draw
C14_Witness ==
    /\ last = "animate"
    /\ DOMAIN drawn # {}
    /\ \E i \in recycled : i - 1 \notin DOMAIN drawn

\* C13: after any sequence of toggleMatrixMode calls the glyph rain is active exactly
\* when matrix mode is on: with matrix mode off no rain interval timer runs and no
\* element with id 'matrix-rain' is in the document, with matrix mode on exactly one
\* timer runs (the one whose handle matrixInterval holds) and exactly one canvas exists.
C13_RainIffMatrixMode ==
    IF matrixMode
    THEN /\ intervals = {matrixInterval}
         /\ Len(rainCanvases) = 1
    ELSE /\ intervals = {}
         /\ rainCanvases = <<>>

\* matrix mode is off again after the rain has been started and stopped
C13_Witness == ~matrixMode /\ starts > 0 /\ toggled

\* C15: the konami detector calls toggleMatrixMode at a keydown if and only if the ten
\* most recent keys, ending with that keydown, are exactly the code: after every
\* keydown, toggled (the call was made at the most recent keydown) equals "the longest
\* suffix of the keys pressed that is a prefix of code is the whole code".
C15_ToggleIffLastTenAreCode == toggled <=> (matched = Len(code))

\* C16: whenever the lightbox is active, its image src is the non-empty src of the most
\* recently clicked placeholder image, under any interleaving of clicks, closes and
\* the firing of the src-clearing timers.
C16_ActiveShowsLastClicked ==
    lightboxActive => (lightboxSrc # 0 /\ lightboxSrc = lastClicked)

\* C17: the number of window resize listeners installed by the glyph-rain code is 0
\* while the rain is stopped and at most 1 while it runs.
C17_RainListenersReleased ==
    IF matrixMode THEN rainListeners <= 1 ELSE rainListeners = 0

\* C18: cleanUrl removes only the 'success' query parameter: at every call of
\* history.replaceState the new location is the current one with the path, the hash
\* and every query parameter other than 'success' unchanged.
C18_CleanUrlRemovesOnlySuccess ==
    [][replaced' = replaced + 1 =>
          url' = [url EXCEPT !.search = SearchDelete(url.search, "success")]]_vars

\* C19: on a page loaded with success equal to 'true' and with the toast element, the
\* toast gets class 'show' exactly once, ToastDelay after the initialisation, and loses
\* it ToastDuration later: it is eventually shown, and eventually hidden for good; on a
\* page loaded without success equal to 'true' the toast is never shown and
\* history.replaceState is never called; the location changes with such a call only.
C19_ToastShownOnceThenHidden ==
    /\ (Success(url) /\ hasToast) =>
           /\ <>(toastShow /\ now = ToastDelay)
           /\ <>[](/\ ~toastShow
                   /\ shows = <<ToastDelay>>
                   /\ hides = <<ToastDelay + ToastDuration>>
                   /\ timers = {})
           /\ [](Len(shows) <= 1 /\ Len(hides) <= 1)
           /\ [](toastShow <=> (Len(shows) = 1 /\ hides = <<>>))
    /\ (~Success(url)) =>
           [](~toastShow /\ shows = <<>> /\ timers = {} /\ replaced = 0)
    /\ [][replaced' = replaced => url' = url]_vars

\* the toast has been shown at ToastDelay and hidden ToastDuration later
C19_Witness ==
    /\ hasToast
    /\ replaced = 1
    /\ ~toastShow
    /\ shows = <<ToastDelay>>
    /\ hides = <<ToastDelay + ToastDuration>>

====
